---- MODULE Spec2Model ----
(***************************************************************************)
(* ingress-target-prober: the Runner's probe-then-patch loop (main.go).    *)
(*                                                                         *)
(* Strings are sequences of one-character strings, so that strings.Split,  *)
(* strings.TrimSpace and strings.Join are computed, not assumed.           *)
(* The Kubernetes API server (the store of Ingress objects), the probed    *)
(* endpoints, the ticker, the signal handler and other writers of the      *)
(* store are the environment of the Runner.  The model states what the     *)
(* Runner asks of the API (a List of all Ingresses, a merge patch built    *)
(* with client.MergeFrom) and takes the API itself as given: a List reads  *)
(* the store as it is, a patch is applied to the stored object at once,    *)
(* and a request to the server under a context that is done fails.  The    *)
(* client of the manager (main.go:208) serves List from the manager's      *)
(* cache, which waits under the context only while it is not yet filled:   *)
(* under a done context List fails or answers.                             *)
(*                                                                         *)
(* Specifications: SpecRunner (the Runner alone writes the store), Spec    *)
(* (other clients write as well), SpecCycle (one cycle, other clients      *)
(* writing), SpecSetup (main with any configuration, up to the end of the  *)
(* first probe), SpecSelector (class-matching or fixed-target selector)    *)
(* and SpecLive (a run without end under fairness, for convergence).       *)
(***************************************************************************)
EXTENDS Integers, Sequences, FiniteSets, TLC

\* ------------------------------------------------------------------ bounds
\* number of Ingress objects in the store
NumIngress == 2
\* cycles (calls of tick) of one run
MaxCycles == 2
\* writes of other clients to the store in one run
MaxExtWrites == 1

\* ----------------------------------------------------------------- strings
EmptyStr == <<>>

\* strings.Split(s, ","), reading s from position k with the part cur open
RECURSIVE SplitFrom(_, _, _)
SplitFrom(s, cur, k) ==
    IF k > Len(s) THEN <<cur>>
    ELSE IF s[k] = "," THEN <<cur>> \o SplitFrom(s, EmptyStr, k + 1)
    ELSE SplitFrom(s, Append(cur, s[k]), k + 1)

Split(s) == SplitFrom(s, EmptyStr, 1)

RECURSIVE TrimLeft(_)
TrimLeft(s) == IF s # EmptyStr /\ Head(s) = " " THEN TrimLeft(Tail(s)) ELSE s

RECURSIVE TrimRight(_)
TrimRight(s) ==
    IF s # EmptyStr /\ s[Len(s)] = " " THEN TrimRight(SubSeq(s, 1, Len(s) - 1)) ELSE s

\* strings.TrimSpace
TrimSpace(s) == TrimRight(TrimLeft(s))

\* strings.Join(parts, ",")
RECURSIVE Join(_)
Join(parts) ==
    IF parts = <<>> THEN EmptyStr
    ELSE IF Len(parts) = 1 THEN parts[1]
    ELSE parts[1] \o <<",">> \o Join(Tail(parts))

\* the loop of splitAndTrim over the parts, from part k on
RECURSIVE KeepNonEmpty(_, _)
KeepNonEmpty(parts, k) ==
    IF k > Len(parts) THEN <<>>
    ELSE LET s == TrimSpace(parts[k])
         IN  (IF s # EmptyStr THEN <<s>> ELSE <<>>) \o KeepNonEmpty(parts, k + 1)

\* a splitAndTrim that forgets to drop the empty parts
splitAndTrimKeepsEmpty(csv) == [k \in 1..Len(Split(csv)) |-> TrimSpace(Split(csv)[k])]

splitAndTrim(csv) == KeepNonEmpty(Split(csv), 1)

\* s[from..], the rest of s
Rest(s, from) == SubSeq(s, from, Len(s))

Digits == <<"0", "1", "2", "3", "4", "5", "6", "7", "8", "9">>
IsDigit(c) == \E d \in 1..Len(Digits) : Digits[d] = c
DigitValue(c) == (CHOOSE d \in 1..Len(Digits) : Digits[d] = c) - 1

\* the number of leading decimal digits of s
RECURSIVE LeadingDigits(_)
LeadingDigits(s) ==
    IF s # EmptyStr /\ IsDigit(Head(s)) THEN 1 + LeadingDigits(Tail(s)) ELSE 0

\* the value of the decimal digits s, read after the value acc
RECURSIVE DecimalValue(_, _)
DecimalValue(s, acc) ==
    IF s = EmptyStr THEN acc ELSE DecimalValue(Tail(s), 10 * acc + DigitValue(Head(s)))

\* the units of time.ParseDuration from the millisecond up, in milliseconds
UnitMillis(u) ==
    IF u = <<"m", "s">> THEN 1
    ELSE IF u = <<"s">> THEN 1000
    ELSE IF u = <<"m">> THEN 60000
    ELSE IF u = <<"h">> THEN 3600000
    ELSE 0

\* time.ParseDuration on an unsigned whole number with one unit, in
\* milliseconds: "0" alone is valid, any other string needs digits and a unit
ParseDuration(s) ==
    LET n == LeadingDigits(s)
        unit == Rest(s, n + 1)
    IN  IF s = <<"0">> THEN [ok |-> TRUE, d |-> 0]
        ELSE IF n = 0 \/ UnitMillis(unit) = 0 THEN [ok |-> FALSE, d |-> 0]
        ELSE [ok |-> TRUE, d |-> DecimalValue(SubSeq(s, 1, n), 0) * UnitMillis(unit)]

\* main.go:254-262
getDuration(env, fallback) ==
    IF env # EmptyStr /\ ParseDuration(env).ok THEN ParseDuration(env).d ELSE fallback

\* main.go:281-286
max(a, b) == IF a > b THEN a ELSE b

\* main.go:100-105
portForScheme(s) ==
    IF s = <<"h", "t", "t", "p", "s">> THEN <<"4", "4", "3">> ELSE <<"8", "0">>

\* net.JoinHostPort: a host with a colon or a percent sign goes in brackets
JoinHostPort(host, port) ==
    IF \E k \in 1..Len(host) : host[k] \in {":", "%"}
    THEN <<"[">> \o host \o <<"]", ":">> \o port
    ELSE host \o <<":">> \o port

\* main.go:83 fmt.Sprintf("%s://%s%s", scheme, hostport, path)
ProbeURL(sch, hostport, path) == sch \o <<":", "/", "/">> \o hostport \o path

\* ----------------------------------------------------------- configuration
\* values of the IPS setting (main exits when it is the empty string)
IPSettings ==
    { <<" ", ",", " ">>,
      <<"1">>,
      <<"2", ",", ",", " ", "1", " ">> }

ingressClassAnnotationKey == "class"
annotationKey == "target"
otherKey == "other"
ingressClass == <<"p">>
otherClass == <<"q">>
httpPath == <<"/">>

\* the defaults of the flags --timeout (2s, in milliseconds) and --http-scheme
DefaultTimeout == 2000
DefaultScheme == <<"h", "t", "t", "p">>

\* values of --timeout, of TIMEOUT, of the scheme (a URL needs one) and of the
\* host header
TimeoutFlags == {1000, DefaultTimeout}
TimeoutEnvs == {EmptyStr, <<"2", "s">>, <<"5", "0", "0", "m", "s">>, <<"3">>}
Schemes == {DefaultScheme, <<"H", "T", "T", "P">>, <<"h", "t", "t", "p", "s">>,
            <<"H", "T", "T", "P", "S">>}
HostHeaders == {EmptyStr, <<"e">>}

\* the selector of main.go: the class annotation
ClassMatching == [mode |-> "class", name |-> 0]

\* the other selector of the design: one Ingress, given by namespace and name
FixedTarget(n) == [mode |-> "fixed", name |-> n]

\* ------------------------------------------------------------ the store
Ingresses == 1..NumIngress

\* metadata.annotations: nilAnn is Go's nil map, ann the map otherwise
NilAnnotations == [nilAnn |-> TRUE, ann |-> <<>>]
Annotations(m) == [nilAnn |-> FALSE, ann |-> m]

\* Go's m[key] on a possibly nil map: the value and whether the key is there
HasKey(a, key) == ~a.nilAnn /\ key \in DOMAIN a.ann
Lookup(a, key) == IF HasKey(a, key) THEN a.ann[key] ELSE EmptyStr

\* m[key] = value
SetKey(m, key, value) ==
    [k \in (DOMAIN m) \cup {key} |-> IF k = key THEN value ELSE m[k]]

\* annotation maps the Ingress objects start with: none, the class to target
\* and no value yet, another class and a value
InitialAnnotations ==
    << NilAnnotations,
       Annotations([k \in {ingressClassAnnotationKey} |-> ingressClass]),
       Annotations([k \in {ingressClassAnnotationKey, annotationKey} |->
                        IF k = annotationKey THEN <<"2">> ELSE otherClass]) >>

\* the stores a run starts with. The code never reads the name of an object,
\* so one store stands for all that differ from it by renaming the objects.
InitialStores ==
    { [n \in Ingresses |-> [annotations |-> InitialAnnotations[f[n]],
                            resourceVersion |-> 1]] :
        f \in {g \in [Ingresses -> 1..Len(InitialAnnotations)] :
                  \A a, b \in Ingresses : a <= b => g[a] <= g[b]} }

\* ------------------------------------------------------------ the prober
\* what an endpoint answers: a status code, or no answer (a transport error)
TransportErr == 0 - 1
StatusCodes == {199, 200, 299, 300}
Answers == StatusCodes \cup {TransportErr}

\* resp.StatusCode >= 200 && resp.StatusCode <= 300
IsHealthyStatusIncl300(code) == code >= 200 /\ code <= 300

\* main.go:90
IsHealthyStatus(code) == code >= 200 /\ code < 300

\* HealthyIPs never reporting the error
NoHealthyNever(h) == FALSE

\* main.go:94 len(healthy) == 0
NoHealthy(h) == Len(h) = 0

\* main.go:91 healthy = append(healthy, ip)
AppendHealthy(h, ip) == Append(h, ip)

\* ------------------------------------------------------------ the reconciler
\* tick going on to list and patch although HealthyIPs returned the error
ReturnsOnProbeErrNever(err) == FALSE

\* main.go:114 if err != nil { ...; return }
ReturnsOnProbeErr(err) == err

\* main.go:133 the negation of (!ok || cls != r.ingressClass)
ClassMatches(a) ==
    HasKey(a, ingressClassAnnotationKey)
        /\ Lookup(a, ingressClassAnnotationKey) = ingressClass

\* main.go:130-135: the Ingress is skipped by the two filters
Skipped(a) == a.nilAnn \/ ~ClassMatches(a)

\* the filters as the selector has them: fixed-target mode has no class filter
\* and takes an absent annotations map as an empty one
Filtered(sel, a) == IF sel.mode = "fixed" THEN FALSE ELSE Skipped(a)

\* the current value read under the class key
CurrentValueOfClassKey(a) == Lookup(a, ingressClassAnnotationKey)

\* main.go:140 current := ing.Annotations[r.annotationKey]
CurrentValue(a) == Lookup(a, annotationKey)

\* a comparison the wrong way round
NeedsPatchWhenEqual(current, want) == current = want

\* a comparison that always asks for the patch
NeedsPatchAlways(current, want) == TRUE

\* main.go:141 the negation of (current == desired)
NeedsPatch(current, want) == current # want

\* main.go:146 ing.Annotations[r.annotationKey] = desired
Mutate(m, want) == SetKey(m, annotationKey, want)

\* a patch that sends the whole annotations map of the mutated object
MergePatchWholeMap(base, modified) == modified

\* client.MergeFrom(base) with the object mutated to modified: the JSON merge
\* patch of the annotations, the keys whose value was added or changed
\* (MergeFrom sets no resourceVersion precondition)
MergePatch(base, modified) ==
    [k \in {x \in DOMAIN modified : x \notin DOMAIN base \/ base[x] # modified[x]}
        |-> modified[k]]

\* the API server applying a merge patch to the stored object
RECURSIVE ApplyKeys(_, _, _)
ApplyKeys(m, patch, keys) ==
    IF keys = {} THEN m
    ELSE LET k == CHOOSE x \in keys : TRUE
         IN  ApplyKeys(SetKey(m, k, patch[k]), patch, keys \ {k})

ApplyMergePatch(obj, patch) ==
    IF DOMAIN patch = {} THEN obj
    ELSE LET m == ApplyKeys(obj.annotations.ann, patch, DOMAIN patch)
             changed == obj.annotations # Annotations(m)
         IN  [annotations |-> Annotations(m),
              resourceVersion |-> IF changed THEN obj.resourceVersion + 1
                                  ELSE obj.resourceVersion]

\* the loop of tick ending at the first patch that fails
NextItemAfterPatchErrReturn(k, n) == n + 1

\* main.go:148-151 a failed patch is logged and the loop continues
NextItemAfterPatchErr(k, n) == k + 1

\* ------------------------------------------------------------------- state
VARIABLES
    ips,          \* Runner.ips, set once by main
    pc,           \* where Start is: "start", "probe", "list", "items", "return",
                  \* "select" or "terminal"
    i,            \* HealthyIPs: index of the target probed next
    healthy,      \* HealthyIPs: the healthy slice
    desired,      \* tick: desired
    items,        \* tick: list.Items
    j,            \* tick: index of the item handled next
    store,        \* the API server's Ingress objects
    cancelled,    \* ctx.Done() of the context given to Start is closed
    expired,      \* the deadline of the cycle's context has passed
    tickPending,  \* a value waits in the ticker's channel t.C
    \* history of the run, read by the properties only
    probe,        \* the probes of the cycle: the endpoints' answers and the results
                  \* of the requests (kept until HealthyIPs' caller goes on), and
                  \* what HealthyIPs returned
    listLog,      \* the List calls of the cycle
    patches,      \* the Patch calls of the cycle
    result,       \* how the cycle ended
    atStart,      \* the store and the count of foreign writes when the cycle began
    prev,         \* the cycle before: its healthy list, its successful patches and
                  \* the objects whose patch failed
    written,      \* every value the Runner wrote under annotationKey
    cancelSeen,   \* the cycle in which the context was cancelled, 0 when it was
                  \* not cancelled while a cycle ran
    nCycles,      \* calls of tick so far
    nExt,         \* writes of other clients so far
    inFlight,     \* calls of tick that have not returned
    \* the configuration main reads, and what main and tick derive from it
    flagTimeout,  \* *flagTimeout, in seconds
    envTimeout,   \* the TIMEOUT environment variable
    urlScheme,    \* Runner.urlScheme
    hostHeader,   \* the host header setting
    selector,     \* the selector mode and, in fixed-target mode, the target
    clientTimeout,\* Runner.httpClient.Timeout, in seconds
    deadline,     \* tick: the timeout of the cycle's context, in seconds
    request,      \* HealthyIPs: the request made last
    stable        \* the targets that answer 2xx once the endpoints have settled

runnerVars == <<pc, i, healthy, desired, items, j>>
envVars == <<store, cancelled, expired, tickPending>>
histVars == <<probe, listLog, patches, result, atStart, prev, written, cancelSeen,
              nCycles, nExt, inFlight>>
configVars == <<flagTimeout, envTimeout, urlScheme, hostHeader, selector, clientTimeout>>
vars == <<ips, runnerVars, envVars, histVars, configVars, deadline, request, stable>>

Reconciling == pc \in {"probe", "list", "items", "return"}
Idle == pc = "select"
Terminal == pc = "terminal"

\* the cycle's context (main.go:109) is done: its parent is cancelled or its
\* deadline has passed
CtxDone == cancelled \/ expired

NoProbe == [answers |-> <<>>, outcomes |-> <<>>, returned |-> FALSE,
            list |-> <<>>, err |-> FALSE]

NoRequest == [built |-> FALSE, target |-> EmptyStr, port |-> EmptyStr, url |-> EmptyStr,
              host |-> EmptyStr]

\* the flags at their defaults and no TIMEOUT variable
DefaultConfig ==
    /\ flagTimeout = DefaultTimeout
    /\ envTimeout = EmptyStr
    /\ urlScheme = DefaultScheme
    /\ hostHeader = EmptyStr
    /\ selector = ClassMatching

\* main.go:198-217 main has built the Runner and Start has not yet run
Constructed ==
    /\ ips \in {splitAndTrim(csv) : csv \in IPSettings}
    /\ pc = "start"
    /\ i = 1
    /\ healthy = <<>>
    /\ desired = EmptyStr
    /\ items = <<>>
    /\ j = 1
    /\ store \in InitialStores
    /\ cancelled = FALSE
    /\ expired = FALSE
    /\ tickPending = FALSE
    /\ probe = NoProbe
    /\ listLog = <<>>
    /\ patches = <<>>
    /\ result = "none"
    /\ atStart = [store |-> store, nExt |-> 0]
    /\ prev = [ran |-> FALSE, healthy |-> <<>>, patched |-> {}, failed |-> {}]
    /\ written = {}
    /\ cancelSeen = 0
    /\ nCycles = 0
    /\ nExt = 0
    /\ inFlight = 0
    /\ clientTimeout = getDuration(envTimeout, flagTimeout)
    /\ deadline = 0
    /\ request = NoRequest

Init ==
    /\ DefaultConfig
    /\ stable = {}
    /\ Constructed

\* ----------------------------------------------------------------- actions
\* tick is entered (main.go:107-113): a new context with a fresh deadline;
\* count is the number of the cycle
BeginTick(count) ==
    /\ pc' = "probe"
    /\ i' = 1
    /\ healthy' = <<>>
    /\ desired' = EmptyStr
    /\ items' = <<>>
    /\ j' = 1
    /\ expired' = FALSE
    /\ deadline' = flagTimeout * max(1, Len(ips))
    /\ probe' = NoProbe
    /\ listLog' = <<>>
    /\ patches' = <<>>
    /\ result' = "running"
    /\ atStart' = [store |-> store, nExt |-> nExt]
    /\ prev' = IF nCycles = 0 THEN prev
               ELSE [ran |-> TRUE, healthy |-> probe.list,
                     patched |-> {[name |-> patches[k].name,
                                   resourceVersion |-> patches[k].after.resourceVersion] :
                                      k \in {x \in 1..Len(patches) : patches[x].ok}},
                     failed |-> {patches[k].name :
                                    k \in {x \in 1..Len(patches) : ~patches[x].ok}}]
    /\ nCycles' = count
    /\ inFlight' = inFlight + 1
    /\ UNCHANGED <<ips, store, cancelled, written, cancelSeen, nExt, configVars, request,
                   stable>>

\* main.go:68 the first tick, at startup
Start ==
    /\ pc = "start"
    /\ BeginTick(nCycles + 1)
    /\ UNCHANGED tickPending

\* main.go:82-93 one round of the loop of HealthyIPs: the request to ips[i]
Probe(answer) ==
    /\ pc = "probe"
    /\ i <= Len(ips)
    /\ LET res == IF CtxDone THEN TransportErr ELSE answer
       IN  /\ healthy' = IF res # TransportErr /\ IsHealthyStatus(res)
                         THEN AppendHealthy(healthy, ips[i])
                         ELSE healthy
           /\ probe' = [probe EXCEPT !.answers = Append(@, answer),
                                     !.outcomes = Append(@, res)]
    /\ LET port == portForScheme(urlScheme)
           hostport == JoinHostPort(ips[i], port)
       IN  \* main.go:83-84; http.NewRequestWithContext sets Host to the URL's host
           request' = [built |-> TRUE, target |-> ips[i], port |-> port,
                       url |-> ProbeURL(urlScheme, hostport, httpPath),
                       host |-> hostport]
    /\ i' = i + 1
    /\ UNCHANGED <<ips, pc, desired, items, j, envVars, listLog, patches, result,
                   atStart, prev, written, cancelSeen, nCycles, nExt, inFlight,
                   configVars, deadline, stable>>

\* main.go:94-97 and 113-119: HealthyIPs returns, tick returns or joins
ProbeReturn ==
    /\ pc = "probe"
    /\ i > Len(ips)
    /\ LET err == NoHealthy(healthy)
           list == IF err THEN <<>> ELSE healthy
       IN  /\ probe' = [probe EXCEPT !.returned = TRUE, !.list = list, !.err = err]
           /\ IF ReturnsOnProbeErr(err)
              THEN /\ pc' = "return"
                   /\ result' = "NoHealthyTarget"
                   /\ UNCHANGED desired
              ELSE /\ pc' = "list"
                   /\ desired' = Join(list)
                   /\ UNCHANGED result
    /\ UNCHANGED <<ips, i, healthy, items, j, envVars, listLog, patches, atStart, prev,
                   written, cancelSeen, nCycles, nExt, inFlight,
                   configVars, deadline, request, stable>>

\* the orders in which List may return the objects
Orders == {f \in [Ingresses -> Ingresses] : \A a, b \in Ingresses : f[a] = f[b] => a = b}

\* main.go:121 and 208 r.k8s.List of the manager's client: it is served from
\* the manager's cache, which honours the context only while it waits to be
\* filled; under a done context the outcome is open, as it is with a live one
ListOk(serverOk, done) == serverOk

\* main.go:121-127 r.k8s.List: fails or reads the store, in any order of the
\* objects
List(serverOk, order) ==
    /\ pc = "list"
    /\ selector.mode = "class"
    /\ LET ok == ListOk(serverOk, CtxDone)
       IN  /\ listLog' = Append(listLog, [ok |-> ok])
           /\ IF ok
              THEN /\ items' = [k \in 1..NumIngress |->
                                   [name |-> order[k], obj |-> store[order[k]]]]
                   /\ pc' = "items"
                   /\ UNCHANGED result
              ELSE /\ pc' = "return"
                   /\ result' = "ListFailed"
                   /\ UNCHANGED items
    /\ j' = 1
    /\ probe' = [probe EXCEPT !.answers = <<>>, !.outcomes = <<>>]
    /\ UNCHANGED <<ips, i, healthy, desired, envVars, patches, atStart, prev,
                   written, cancelSeen, nCycles, nExt, inFlight,
                   configVars, deadline, request, stable>>

\* a fetch in fixed-target mode that is a List of all objects
FetchedAll(sel) == [k \in 1..NumIngress |-> k]

\* fixed-target mode: the names of the objects the cycle fetches
Fetched(sel) == <<sel.name>>

\* fixed-target mode: the cycle gets the one Ingress of the selector; when the
\* Get fails the cycle ends
Get(serverOk) ==
    /\ pc = "list"
    /\ selector.mode = "fixed"
    /\ LET ok == serverOk /\ ~CtxDone
           names == Fetched(selector)
       IN  /\ listLog' = Append(listLog, [ok |-> ok])
           /\ IF ok
              THEN /\ items' = [k \in 1..Len(names) |->
                                   [name |-> names[k], obj |-> store[names[k]]]]
                   /\ pc' = "items"
                   /\ UNCHANGED result
              ELSE /\ pc' = "return"
                   /\ result' = "GetFailed"
                   /\ UNCHANGED items
    /\ j' = 1
    /\ probe' = [probe EXCEPT !.answers = <<>>, !.outcomes = <<>>]
    /\ UNCHANGED <<ips, i, healthy, desired, envVars, patches, atStart, prev,
                   written, cancelSeen, nCycles, nExt, inFlight,
                   configVars, deadline, request, stable>>

\* the loop of tick goes on with item k, or tick returns after the last one
GoOn(k) ==
    /\ j' = k
    /\ IF k > Len(items)
       THEN pc' = "return" /\ result' = "Done"
       ELSE UNCHANGED <<pc, result>>

\* main.go:127-154 one round of the loop of tick over list.Items
Item(serverOk) ==
    /\ pc = "items"
    /\ j <= Len(items)
    /\ LET ing == items[j]
           a == ing.obj.annotations
           current == CurrentValue(a)
       IN  IF Filtered(selector, a) \/ ~NeedsPatch(current, desired)
           THEN /\ GoOn(j + 1)
                /\ UNCHANGED <<store, patches, written>>
           ELSE LET patch == MergePatch(a.ann, Mutate(a.ann, desired))
                    ok == serverOk /\ ~CtxDone
                    after == IF ok THEN ApplyMergePatch(store[ing.name], patch)
                             ELSE store[ing.name]
                IN  /\ store' = [store EXCEPT ![ing.name] = after]
                    /\ patches' = Append(patches,
                                         [name |-> ing.name, patch |-> patch,
                                          ok |-> ok,
                                          snap |-> ing.obj, before |-> store[ing.name],
                                          after |-> after])
                    /\ written' = IF ok /\ annotationKey \in DOMAIN patch
                                  THEN written \cup {patch[annotationKey]}
                                  ELSE written
                    /\ GoOn(IF ok THEN j + 1
                            ELSE NextItemAfterPatchErr(j, Len(items)))
    /\ UNCHANGED <<ips, i, healthy, desired, items, cancelled, expired, tickPending,
                   probe, listLog, atStart, prev, cancelSeen, nCycles, nExt, inFlight,
                   configVars, deadline, request, stable>>

\* a Start that gives up after a cycle that failed
AfterTickStopOnFailure(res) == IF res = "Done" THEN "select" ELSE "terminal"

\* main.go:68-71 and 75: tick returns nothing, and Start goes (back) to the
\* select however the cycle ended
AfterTick(res) == "select"

\* tick returns to Start, which enters the select (main.go:70-71)
TickReturn ==
    /\ pc = "return"
    /\ pc' = AfterTick(result)
    /\ inFlight' = inFlight - 1
    /\ i' = 1
    /\ healthy' = <<>>
    /\ desired' = EmptyStr
    /\ items' = <<>>
    /\ j' = 1
    /\ probe' = [probe EXCEPT !.answers = <<>>, !.outcomes = <<>>]
    /\ UNCHANGED <<ips, envVars, listLog, patches, result, atStart, prev, written,
                   cancelSeen, nCycles, nExt, configVars, deadline, request, stable>>

\* main.go:72-73 the select takes ctx.Done()
SelectDone ==
    /\ pc = "select"
    /\ cancelled
    /\ pc' = "terminal"
    /\ UNCHANGED <<ips, i, healthy, desired, items, j, envVars, histVars, configVars, deadline, request, stable>>

\* a select with a default case that runs tick
TickReceivedOrDefault(pending) == TRUE

\* main.go:74 case <-t.C: a value is there to receive
TickReceived(pending) == pending

\* a ticker handled by a goroutine of its own, whatever Start is doing
AtSelectOrInTick(p) == p \in {"select", "probe", "list", "items", "return"}

\* main.go:70-71 Start is at its select: tick, called at lines 68 and 75, has
\* returned
AtSelect(p) == p = "select"

\* main.go:74-75 the select takes a value of t.C; when both channels are ready
\* Go takes either
SelectTick ==
    /\ AtSelect(pc)
    /\ TickReceived(tickPending)
    /\ nCycles < MaxCycles
    /\ tickPending' = FALSE
    /\ BeginTick(nCycles + 1)

\* ------------------------------------------------------------- environment
\* the signal handler cancels the context given to Start
Cancel ==
    /\ ~cancelled
    /\ ~Terminal
    /\ cancelled' = TRUE
    /\ cancelSeen' = IF Reconciling THEN nCycles ELSE 0
    /\ UNCHANGED <<ips, runnerVars, store, expired, tickPending, probe, listLog,
                   patches, result, atStart, prev, written, nCycles, nExt, inFlight,
                   configVars, deadline, request, stable>>

\* the ticker of main.go:64 fires; its channel holds one value, a fire that
\* finds it full is dropped
TimerFire ==
    /\ pc \notin {"start", "terminal"}
    /\ ~tickPending
    /\ nCycles < MaxCycles
    /\ tickPending' = TRUE
    /\ UNCHANGED <<ips, runnerVars, store, cancelled, expired, histVars, configVars, deadline, request, stable>>

\* the deadline of the cycle's context passes while tick runs
Expire ==
    /\ pc \in {"probe", "list", "items"}
    /\ ~expired
    /\ expired' = TRUE
    /\ UNCHANGED <<ips, runnerVars, store, cancelled, tickPending, histVars, configVars, deadline, request, stable>>

\* what another client may make of an object's annotations
Edits(a) ==
    { Annotations(SetKey(a.ann, ingressClassAnnotationKey, otherClass)),
      Annotations(SetKey(a.ann, annotationKey, <<"2">>)),
      Annotations(SetKey(a.ann, otherKey, <<"y">>)) } \ {a}

\* another client writes the Ingress n
ExtWrite(n) ==
    /\ nExt < MaxExtWrites
    /\ ~Terminal
    /\ \E a \in Edits(store[n].annotations) :
          store' = [store EXCEPT ![n] = [annotations |-> a,
                                        resourceVersion |-> @.resourceVersion + 1]]
    /\ nExt' = nExt + 1
    /\ UNCHANGED <<ips, runnerVars, cancelled, expired, tickPending, probe, listLog,
                   patches, result, atStart, prev, written, cancelSeen, nCycles,
                   inFlight, configVars, deadline, request, stable>>

\* the Runner with the endpoints, the API server, the ticker and the signal
\* handler
RunnerNext ==
    \/ Start
    \/ \E answer \in Answers : Probe(answer)
    \/ ProbeReturn
    \/ \E serverOk \in BOOLEAN, order \in Orders : List(serverOk, order)
    \/ \E serverOk \in BOOLEAN : Item(serverOk)
    \/ TickReturn
    \/ SelectDone
    \/ SelectTick
    \/ Cancel
    \/ TimerFire
    \/ Expire

\* the Runner is the only client that writes the Ingress objects
SpecRunner == Init /\ [][RunnerNext]_vars

\* other clients write the Ingress objects as well
Next ==
    \/ RunnerNext
    \/ \E n \in Ingresses : ExtWrite(n)

Spec == Init /\ [][Next]_vars

\* the first cycle alone, with its deadline and with other clients writing
CycleNext ==
    \/ Start
    \/ \E answer \in Answers : Probe(answer)
    \/ ProbeReturn
    \/ \E serverOk \in BOOLEAN, order \in Orders : List(serverOk, order)
    \/ \E serverOk \in BOOLEAN : Item(serverOk)
    \/ TickReturn
    \/ Expire
    \/ \E n \in Ingresses : ExtWrite(n)

SpecCycle == Init /\ [][CycleNext]_vars

\* main with any of the configurations, up to the end of the first probe
InitSetup ==
    /\ flagTimeout \in TimeoutFlags
    /\ envTimeout \in TimeoutEnvs
    /\ urlScheme \in Schemes
    /\ hostHeader \in HostHeaders
    /\ selector = ClassMatching
    /\ stable = {}
    /\ Constructed

NextSetup ==
    \/ Start
    \/ \E answer \in Answers : Probe(answer)
    \/ ProbeReturn

SpecSetup == InitSetup /\ [][NextSetup]_vars

\* ---------------------------------------------------------------- liveness
\* A run without end, without cancellation and without other writers, in
\* which the environment settles: until then endpoints answer anything, calls
\* may fail and the deadline may pass; from then on the targets of the set
\* stable, and they alone, answer 2xx and List and Patch succeed. Cycles are
\* counted up to MaxCycles, and the cycle numbered MaxCycles and those after
\* it start in a settled environment only.
Settled == stable # {}

InitLive ==
    /\ DefaultConfig
    /\ stable = {}
    /\ Constructed
    /\ Len(ips) >= 1

\* the environment settles, with a non-empty set of healthy targets
Settle ==
    /\ ~Settled
    /\ stable' \in (SUBSET (1..Len(ips))) \ {{}}
    /\ UNCHANGED <<ips, runnerVars, envVars, histVars, configVars, deadline, request>>

LiveProbe(answer) ==
    /\ Settled => (IsHealthyStatus(answer) <=> i \in stable)
    /\ Probe(answer)

LiveList(serverOk, order) ==
    /\ Settled => serverOk
    /\ List(serverOk, order)

LiveItem(serverOk) ==
    /\ Settled => serverOk
    /\ Item(serverOk)

LiveExpire ==
    /\ ~Settled
    /\ Expire

\* the ticker fires, as TimerFire, in a run without end
LiveTimerFire ==
    /\ pc \notin {"start", "terminal"}
    /\ ~tickPending
    /\ tickPending' = TRUE
    /\ UNCHANGED <<ips, runnerVars, store, cancelled, expired, histVars, configVars,
                   deadline, request, stable>>

\* main.go:74-75, as SelectTick, in a run without end
LiveSelectTick ==
    /\ AtSelect(pc)
    /\ TickReceived(tickPending)
    /\ nCycles + 1 < MaxCycles \/ Settled
    /\ tickPending' = FALSE
    /\ BeginTick(IF nCycles < MaxCycles THEN nCycles + 1 ELSE nCycles)

LiveNext ==
    \/ Start
    \/ \E answer \in Answers : LiveProbe(answer)
    \/ ProbeReturn
    \/ \E serverOk \in BOOLEAN, order \in Orders : LiveList(serverOk, order)
    \/ \E serverOk \in BOOLEAN : LiveItem(serverOk)
    \/ TickReturn
    \/ LiveSelectTick
    \/ LiveTimerFire
    \/ LiveExpire
    \/ Settle

\* the goroutine of Start runs on (every call of a cycle returns, by the
\* cycle's deadline at the latest) and the ticker fires at every interval
LiveFairness ==
    /\ WF_vars(Start)
    /\ WF_vars(\E answer \in Answers : LiveProbe(answer))
    /\ WF_vars(ProbeReturn)
    /\ WF_vars(\E serverOk \in BOOLEAN, order \in Orders : LiveList(serverOk, order))
    /\ WF_vars(\E serverOk \in BOOLEAN : LiveItem(serverOk))
    /\ WF_vars(TickReturn)
    /\ WF_vars(LiveSelectTick)
    /\ WF_vars(LiveTimerFire)

SpecLive == InitLive /\ [][LiveNext]_vars /\ LiveFairness

\* the Runner with either selector, the Runner being the only writer
InitSelector ==
    /\ flagTimeout = DefaultTimeout
    /\ envTimeout = EmptyStr
    /\ urlScheme = DefaultScheme
    /\ hostHeader = EmptyStr
    /\ selector \in {ClassMatching} \cup {FixedTarget(n) : n \in Ingresses}
    /\ stable = {}
    /\ Constructed

SelectorNext ==
    \/ RunnerNext
    \/ \E serverOk \in BOOLEAN : Get(serverOk)

SpecSelector == InitSelector /\ [][SelectorNext]_vars

\* ------------------------------------------------------------ properties
\* the elements of s at the positions P, in the order of s
RECURSIVE PickFrom(_, _, _)
PickFrom(s, P, k) ==
    IF k > Len(s) THEN <<>>
    ELSE (IF k \in P THEN <<s[k]>> ELSE <<>>) \o PickFrom(s, P, k + 1)

Pick(s, P) == PickFrom(s, P, 1)

\* the requests of the cycle that completed with a status in [200,300)
HealthyPositions ==
    {k \in 1..Len(probe.outcomes) :
        probe.outcomes[k] # TransportErr /\ probe.outcomes[k] \in 200..299}

\* HealthyIPs has returned and the results of all its requests are on record
ProbeOnRecord == probe.returned /\ Len(probe.outcomes) = Len(ips)

\* C1: what HealthyIPs returns is the list of the targets whose request
\* completed without transport error with a status in [200,300), in the order
\* of the configured list.
C1_HealthySublistInOrder ==
    ProbeOnRecord => probe.list = Pick(ips, HealthyPositions)

\* C1 witness: of two targets the first answered 300 and the second 299, and
\* HealthyIPs returned the second alone.
C1_Witness ==
    /\ ProbeOnRecord
    /\ Len(ips) = 2
    /\ probe.outcomes = <<300, 299>>
    /\ probe.list = <<ips[2]>>

\* C2: HealthyIPs returns the error, and no list, iff no target is healthy;
\* with a healthy target it returns the list and no error.
C2_NoHealthyTargetIffEmpty ==
    ProbeOnRecord =>
        /\ probe.err <=> HealthyPositions = {}
        /\ probe.err => probe.list = <<>>
        /\ ~probe.err => probe.list # <<>>

\* C2 witness: every request to two targets failed with a transport error and
\* HealthyIPs returned the error.
C2_Witness ==
    /\ ProbeOnRecord
    /\ Len(ips) = 2
    /\ probe.outcomes = <<TransportErr, TransportErr>>
    /\ probe.err

\* C3: a cycle whose probe ends with NoHealthyTarget returns without a List
\* and without a Patch call, and when it returns the store is as it was when
\* the cycle began (apart from what other clients wrote meanwhile).
C3_NoHealthyLeavesStore ==
    (probe.returned /\ probe.err) =>
        /\ listLog = <<>>
        /\ patches = <<>>
        /\ (pc = "return" /\ nExt = atStart.nExt) => store = atStart.store

\* C3 witness: the second cycle ends with NoHealthyTarget after two non-2xx
\* answers while a targeted Ingress carries the value of the first cycle.
C3_Witness ==
    /\ pc = "return"
    /\ probe.err
    /\ nCycles = 2
    /\ probe.outcomes = <<300, 199>>
    /\ \E n \in Ingresses :
          /\ ClassMatches(store[n].annotations)
          /\ Lookup(store[n].annotations, annotationKey) \in written

\* the comma-joins of the non-empty in-order sublists of the targets
JoinedSublists ==
    {Join(Pick(ips, P)) : P \in (SUBSET (1..Len(ips))) \ {{}}}

\* C4: every value the Runner has written under the annotation key is the
\* comma-join of a non-empty in-order sublist of the targets, and is never the
\* empty string.
C4_WrittenValues ==
    /\ written \subseteq JoinedSublists
    /\ EmptyStr \notin written

\* C4 witness: the join of both targets and the join of one target have both
\* been written.
C4_Witness ==
    /\ Len(ips) = 2
    /\ Join(ips) \in written
    /\ ips[2] \in written

\* the cycle has gone through the whole list
CycleDone == pc = "return" /\ result = "Done"

\* the names of the objects the cycle called Patch for
Patched == {patches[k].name : k \in 1..Len(patches)}

\* the listed object carries the class annotation with the configured value
ListedMatch(k) ==
    /\ ~items[k].obj.annotations.nilAnn
    /\ ingressClassAnnotationKey \in DOMAIN items[k].obj.annotations.ann
    /\ items[k].obj.annotations.ann[ingressClassAnnotationKey] = ingressClass

\* the value the listed object carries under the annotation key, absent as empty
ListedValue(k) ==
    IF annotationKey \in DOMAIN items[k].obj.annotations.ann
    THEN items[k].obj.annotations.ann[annotationKey]
    ELSE EmptyStr

\* C5: in a cycle with a healthy target and a successful List, Patch is called
\* for a listed Ingress matching the selector iff its listed value under the
\* annotation key differs from the desired value, and at most once.
C5_PatchIffDiffers ==
    CycleDone =>
        /\ \A k \in 1..Len(items) :
              ListedMatch(k) =>
                  (items[k].name \in Patched <=> ListedValue(k) # desired)
        /\ \A a, b \in 1..Len(patches) : patches[a].name = patches[b].name => a = b

\* C5 witness: one cycle lists two matching objects, one carrying the desired
\* value already and one not, and calls Patch for the second alone.
C5_Witness ==
    /\ CycleDone
    /\ \E a, b \in 1..Len(items) :
          /\ ListedMatch(a) /\ ListedValue(a) = desired
          /\ ListedMatch(b) /\ ListedValue(b) # desired
          /\ Patched = {items[b].name}

\* the patch of object n by the cycle before succeeded and left the object at
\* the resource version rv
PatchedBefore(n, rv) ==
    \E q \in prev.patched : q.name = n /\ q.resourceVersion = rv

\* C6: when a cycle finds the healthy list of the cycle before, which patched
\* an Ingress with success, and reads that Ingress as the patch left it (no
\* other client wrote it since), it calls no Patch for it.
C6_NoSecondWrite ==
    (prev.ran /\ probe.returned /\ prev.healthy = probe.list) =>
        \A k \in 1..Len(patches) :
            ~PatchedBefore(patches[k].name, patches[k].snap.resourceVersion)

\* C6 witness: the second cycle finds the same healthy list, lists a matching
\* object as the first cycle's patch left it, and ends without a Patch call.
C6_Witness ==
    /\ CycleDone
    /\ nCycles = 2
    /\ prev.healthy = probe.list
    /\ patches = <<>>
    /\ \E k \in 1..Len(items) :
          /\ ListedMatch(k)
          /\ PatchedBefore(items[k].name, items[k].obj.resourceVersion)

\* the stored object carries the class annotation with the configured value
StoredMatch(obj) ==
    /\ ~obj.annotations.nilAnn
    /\ ingressClassAnnotationKey \in DOMAIN obj.annotations.ann
    /\ obj.annotations.ann[ingressClassAnnotationKey] = ingressClass

\* C7: the Runner changes only Ingress objects whose class annotation exists
\* and equals the configured class; an object that has no annotations, lacks
\* the class annotation or carries another class is never changed by a patch
\* of the Runner.
C7_OnlyClassObjectsChanged ==
    \A k \in 1..Len(patches) :
        patches[k].after # patches[k].before => StoredMatch(patches[k].before)

\* C8: when a Patch call of the cycle fails, the cycle still calls Patch for
\* every other listed matching Ingress whose listed value differs from the
\* desired value, wherever the failing object stands in the list.
C8_PatchFailureIsolated ==
    (CycleDone /\ \E k \in 1..Len(patches) : ~patches[k].ok) =>
        \A m \in 1..Len(items) :
            (ListedMatch(m) /\ ListedValue(m) # desired) => items[m].name \in Patched

\* C8 witness: the Patch of the first listed object fails at the server, the
\* context still being live, and the Patch of the second succeeds.
C8_Witness ==
    /\ CycleDone
    /\ ~CtxDone
    /\ Len(patches) = 2
    /\ ~patches[1].ok
    /\ patches[2].ok
    /\ patches[1].name = items[1].name
    /\ patches[2].name = items[2].name

\* C9: a cancellation that arrives while a cycle runs does not alter the
\* cycle: with the deadline not passed, every request of the cycle ends with
\* what its endpoint answered.
C9_CancelDoesNotAlterCycle ==
    (pc = "return" /\ cancelSeen = nCycles /\ ~expired) =>
        probe.outcomes = probe.answers

\* C10: once the context is cancelled, the select of an idle loop starts no
\* cycle, also when a tick is pending.
C10_NoCycleAfterCancel ==
    [][(pc = "select" /\ cancelled) => pc' # "probe"]_vars

\* C11: the first cycle starts at startup with no timer fire awaited, and
\* every step from not Reconciling to Reconciling is that startup or the
\* select taking a timer fire that was pending.
C11_CycleStartsOnStartupOrTimer ==
    [][ /\ (pc = "start" /\ pc' # pc) => (Reconciling' /\ ~tickPending /\ ~tickPending')
        /\ (~Reconciling /\ Reconciling') =>
              (pc = "start" \/ (Idle /\ tickPending /\ ~tickPending')) ]_vars

\* C11 witness: the second cycle runs, after the cycle begun at startup has
\* returned and the select has taken the timer fire.
C11_Witness ==
    /\ Reconciling
    /\ nCycles = 2
    /\ prev.ran
    /\ ~tickPending

\* C12: in every state at most one call of tick has not returned, and a call
\* is in flight exactly while the loop is Reconciling; a timer fire that
\* arrives meanwhile waits in the ticker's channel.
C12_OneCycleInFlight ==
    /\ inFlight <= 1
    /\ inFlight = 1 <=> Reconciling

\* C12 witness: a timer fire arrived while the cycle is patching and waits; the
\* cycle is in flight alone.
C12_Witness ==
    /\ pc = "items"
    /\ patches # <<>>
    /\ tickPending
    /\ inFlight = 1

\* the cycle ended with a failure: no healthy target, a failed List, or a
\* failed Patch
CycleFailed ==
    \/ result \in {"NoHealthyTarget", "ListFailed"}
    \/ \E k \in 1..Len(patches) : ~patches[k].ok

\* C13: a cycle that ends, with whatever failure, returns the loop to Idle;
\* the loop enters Terminal from Idle with the context cancelled and in no
\* other way; and an Idle loop whose last cycle failed starts the next cycle
\* on the pending timer fire.
C13_FailuresNotFatal ==
    [][ /\ (pc = "return" /\ pc' # pc) => Idle'
        /\ Terminal' => (Idle /\ cancelled)
        /\ (Idle /\ CycleFailed /\ tickPending /\ ~cancelled /\ pc' # pc) =>
              (Reconciling' /\ nCycles' = nCycles + 1) ]_vars

\* a cycle before this one ended with no healthy target
PrevNoHealthy == prev.ran /\ prev.healthy = <<>>

\* C13 witness: the first cycle ended with no healthy target, the context is
\* not cancelled, and the second cycle has had a Patch fail and gone on.
C13_Witness ==
    /\ PrevNoHealthy
    /\ ~cancelled
    /\ nCycles = 2
    /\ pc = "return"
    /\ result = "Done"
    /\ \E k \in 1..Len(patches) : ~patches[k].ok

\* C14: a request of HealthyIPs carries the configured host header as its
\* Host, and the target's address when no host header is configured.
C14_HostHeaderSent ==
    request.built =>
        IF hostHeader # EmptyStr
        THEN request.host = hostHeader
        ELSE SubSeq(request.host, 1, Len(request.target)) = request.target

\* ASCII lower case of the letters of the schemes
LowerChar(c) ==
    IF c = "H" THEN "h" ELSE IF c = "T" THEN "t" ELSE IF c = "P" THEN "p"
    ELSE IF c = "S" THEN "s" ELSE c

ToLower(s) == [k \in 1..Len(s) |-> LowerChar(s[k])]

\* the annotation keys of the stored object before or after the k-th Patch call,
\* but for the annotation key the Runner writes
OtherKeys(k) ==
    (DOMAIN patches[k].before.annotations.ann
        \cup DOMAIN patches[k].after.annotations.ann) \ {annotationKey}

\* C15: a Patch call leaves every annotation of the stored Ingress other than
\* the one under the annotation key as it was immediately before the call,
\* present or absent and with the same value, also one that another client
\* changed after the cycle listed the object.
C15_PatchChangesOnlyAnnotationKey ==
    \A k \in 1..Len(patches) :
        \A key \in OtherKeys(k) :
            /\ HasKey(patches[k].before.annotations, key)
                   <=> HasKey(patches[k].after.annotations, key)
            /\ Lookup(patches[k].before.annotations, key)
                   = Lookup(patches[k].after.annotations, key)

\* C15 witness: another client added an annotation after the cycle listed the
\* object; the Patch succeeded, wrote the desired value and kept that
\* annotation.
C15_Witness ==
    \E k \in 1..Len(patches) :
        /\ patches[k].ok
        /\ ~HasKey(patches[k].snap.annotations, otherKey)
        /\ HasKey(patches[k].before.annotations, otherKey)
        /\ HasKey(patches[k].after.annotations, otherKey)
        /\ Lookup(patches[k].after.annotations, annotationKey) = desired
        /\ Lookup(patches[k].before.annotations, annotationKey) # desired

\* the k-th Patch call was built from a base that is stale: the stored object
\* was written after the cycle listed it
StaleBase(k) == patches[k].snap.resourceVersion # patches[k].before.resourceVersion

\* C16: a Patch built from a stale base is rejected by the store and leaves
\* the object unchanged, and the cycle calls Patch for the object only once.
C16_StalePatchRejected ==
    \A k \in 1..Len(patches) :
        StaleBase(k) =>
            /\ ~patches[k].ok
            /\ patches[k].after = patches[k].before
            /\ \A m \in 1..Len(patches) : patches[m].name = patches[k].name => m = k

\* HealthyIPs has returned a healthy list and the cycle has gone on from it
WentOn == probe.returned /\ ~probe.err /\ pc \in {"items", "return", "select", "terminal"}

\* C17: the selector is one of the two modes and stays as it is for the run;
\* in fixed-target mode a cycle with a healthy target makes exactly one fetch,
\* which yields the Ingress of the selector alone, calls Patch for no other
\* object and at most once, and calls no Patch when the fetch failed.
C17_FixedTargetMode ==
    /\ [](selector.mode \in {"class", "fixed"})
    /\ [][selector' = selector]_vars
    /\ [](selector.mode = "fixed" =>
            /\ WentOn => Len(listLog) = 1
            /\ \A k \in 1..Len(items) : items[k].name = selector.name
            /\ Len(items) <= 1
            /\ \A k \in 1..Len(patches) : patches[k].name = selector.name
            /\ Len(patches) <= 1
            /\ (\E k \in 1..Len(listLog) : ~listLog[k].ok) => patches = <<>>)

\* C17 witness: in fixed-target mode the store holds two Ingresses of the class
\* without the desired value, and the cycle has patched the one of the
\* selector and ended.
C17_Witness ==
    /\ selector.mode = "fixed"
    /\ CycleDone
    /\ Len(patches) = 1
    /\ patches[1].ok
    /\ patches[1].name = selector.name
    /\ \E n \in Ingresses :
          /\ n # selector.name
          /\ ClassMatches(store[n].annotations)
          /\ Lookup(store[n].annotations, annotationKey) # desired

\* the desired value of a settled environment
StableValue == Join(Pick(ips, stable))

\* every Ingress of the class carries the desired value of the settled
\* environment
Converged ==
    \A n \in Ingresses :
        ClassMatches(store[n].annotations) =>
            Lookup(store[n].annotations, annotationKey) = StableValue

\* C20: once the environment has settled (a non-empty unchanging healthy set,
\* List and Patch succeeding, no other writer, no cancellation), under fair
\* timer fires every Ingress of the class, also one whose Patch failed in a
\* cycle before, eventually carries the desired value for good, and eventually
\* no cycle calls Patch any more.
C20_EventuallyConverged ==
    /\ Settled ~> [](Settled /\ Converged)
    /\ Settled ~> [](patches = <<>>)

\* C20 witness: the Patch of an Ingress failed in the cycle before; in the
\* settled environment this cycle has patched the Ingress and ended with every
\* Ingress of the class at the desired value.
C20_Witness ==
    /\ Settled
    /\ Converged
    /\ CycleDone
    /\ nCycles = MaxCycles
    /\ \E k \in 1..Len(patches) :
          /\ patches[k].ok
          /\ patches[k].name \in prev.failed
          /\ ClassMatches(store[patches[k].name].annotations)

\* C18: the timeout of the cycle's context is the timeout of one probe
\* request (the http client's, from the flag or from TIMEOUT) times the number
\* of targets, and that timeout itself when there are no targets.
C18_DeadlineIsRequestTimeoutTimesTargets ==
    Reconciling =>
        deadline = IF Len(ips) = 0 THEN clientTimeout ELSE clientTimeout * Len(ips)

\* C19: the port of a request is 443 when the scheme is https in any case of
\* its letters, and 80 otherwise.
C19_PortForSchemeAnyCase ==
    request.built =>
        request.port = IF ToLower(urlScheme) = <<"h", "t", "t", "p", "s">>
                       THEN <<"4", "4", "3">>
                       ELSE <<"8", "0">>

====
